---------------------------- MODULE Spec2Model ----------------------------
(***************************************************************************)
(* State-machine model of the LabIQ browser client: the App shell          *)
(* (frontend/app/page.tsx) with its 20 s health + roster polling effect    *)
(* and patient switcher, and the DashboardTab component                    *)
(* (frontend/components/DashboardTab.tsx) with its four-request load       *)
(* cycle and 1 s countdown timer; the telemetry they write (the header    *)
(* feed of the axios interceptors, the query log of DashboardTab); the    *)
(* ES|QL console (frontend/components/EsqlTab.tsx); the data of            *)
(* ScoringPanel (frontend/components/ScoringPanel.tsx); the upload of      *)
(* UploadTab (frontend/components/UploadTab.tsx); and the two              *)
(* presentational functions RiskGauge and Sparkline.                       *)
(*                                                                         *)
(* Scheduling: one JavaScript event loop.  An event handler, the render    *)
(* it causes and the effects of that render run to completion before the   *)
(* next timer or network callback, so each is one atomic action.  An       *)
(* `await` splits a function in two actions: the dispatch and the          *)
(* continuation that runs when the awaited request(s) settle.              *)
(*                                                                         *)
(* React: a component whose key changes is unmounted (effect cleanups      *)
(* run) and a fresh instance is mounted (state initialisers and effects    *)
(* run); a state setter called for an unmounted instance is ignored.       *)
(***************************************************************************)
EXTENDS Integers, Sequences, FiniteSets, TLC

\* ------------------------------------------------------------------ bounds
\* Requests of one kind tracked at once; an older outstanding request is
\* taken to stall for ever (the transport has no timeout).
MaxInFlight == 2
\* Largest value of App.refreshKey explored.
MaxRefreshKey == 2

\* --------------------------------------------------------------- constants
\* DashboardTab: useState(30), `return 30`, setCountdown(30).
Period == 30

\* page.tsx: [{...}, ...prev].slice(0, 6)
FeedCapacity == 6

\* DashboardTab.logQuery: [{...}, ...prev].slice(0, 10)
LogCapacity == 10

\* ------------------------------------------------------------------ values
Null == [null |-> TRUE]

Tabs == {"dashboard", "chat", "esql", "elastic", "upload"}

Ids == {"PAT001", "PAT002", "PAT003"}

Patient(id, crit) == [patient_id |-> id, critical |-> crit]

\* Rosters the backend may return from GET /api/patients.
Rosters ==
  { <<>>,
    <<Patient("PAT001", 2)>>,
    <<Patient("PAT003", 0), Patient("PAT002", 2)>> }

RosterIds(rows) == {rows[i].patient_id : i \in 1..Len(rows)}

\* The four requests of DashboardTab.load, in the order of the array.
Slices == {"summary", "biomarkers", "risk", "alerts"}

Rejected == [status |-> "rejected"]

Fulfilled(d) == [status |-> "fulfilled", data |-> d]

\* Response bodies.  A list-valued field may be missing from the body.
SummaryData == {[total_tests |-> 0], [total_tests |-> 3]}

BiomarkersData == {[has |-> TRUE, list |-> <<"HbA1c">>]}

RiskData == {[score |-> 95]}

AlertsData == {[has |-> FALSE], [has |-> TRUE, list |-> <<"critical">>]}

Settled(D) == {Rejected} \cup {Fulfilled(d) : d \in D}

\* What `await Promise.allSettled([...])` can resolve to.
Outcomes ==
  [summary : Settled(SummaryData), biomarkers : Settled(BiomarkersData),
   risk : Settled(RiskData), alerts : Settled(AlertsData)]

\* Two of them: every request rejected, every request fulfilled.
AllRejected == [k \in Slices |-> Rejected]

AllFulfilled ==
  [summary |-> Fulfilled([total_tests |-> 3]),
   biomarkers |-> Fulfilled([has |-> TRUE, list |-> <<"HbA1c">>]),
   risk |-> Fulfilled([score |-> 95]),
   alerts |-> Fulfilled([has |-> TRUE, list |-> <<"critical">>])]

NoSettle == [none |-> TRUE]

VARIABLES
  \* ---- App (page.tsx)
  tab,             \* the selected tab
  patientId,       \* the active patient id
  patients,        \* the roster last loaded
  patientsLoading,
  showMenu,
  refreshKey,
  criticalAlert,   \* Null or [pid, count]: the patient and count the banner names
  status,          \* Null or the SysStatus snapshot
  appTimers,       \* patientId captured by each registered 20 s interval
  rosterLoads,     \* loadPatients calls awaiting GET /api/patients: [pid]
  probes,          \* checkStatus calls awaiting GET /health
  \* ---- DashboardTab
  summary, biomarkers, risk, alerts,
  loading,
  countdown,
  dashTimers,      \* owners of the registered 1 s intervals
  cycles,          \* load cycles awaiting allSettled, in dispatch order
  lastSettle,      \* the outcome and the slices before it of the cycle that
                   \* settled last, NoSettle once the component moved on
  \* ---- ScoringPanel
  scoreLoading,
  scoreLoads,      \* load calls awaiting Promise.all: [pid]
  \* ---- ChatTab
  chatPid,         \* the patient the greeting names, Null when unmounted
  \* ---- telemetry
  esqlFeed,        \* App: the header feed, [label, ms, rows] most recent first
  wire,            \* axios requests that passed the request interceptor and
                   \* await their response: [url, slot], slot the position in
                   \* esqlFeed of the entry the request created (0: none)
  queryLog,        \* DashboardTab: the query log, [query, rows]
  \* ---- EsqlTab
  query,           \* the text of the editor, a sequence of characters
  result,          \* Null or the body of the last successful run
  running,
  error,           \* Null or [message] of the last failed run
  runs,            \* run calls awaiting POST /api/esql/run: [query, live]
  pickedSinceRun,  \* history: an example was picked after the last accepted run
  lastAnswer,      \* history: Null or, of the request that settled last,
                   \* [live, behind]: whether its console was still mounted and
                   \* how many requests dispatched after it were in flight
  \* ---- presentational components
  gauge,           \* Null or the props and the output of the last render of
                   \* ScoringPanel's RiskGauge
  sparkline,       \* Null or the props and the output of the last render of
                   \* DashboardTab's Sparkline
  \* ---- ScoringPanel data
  scorePercentile, \* percentile: Null or the body of .../percentile
  scoreSimilar,    \* similar: the list of .../similar
  scorePanels,     \* panels: the list of .../scored-panels
  scorePopStats,   \* popStats: Null or the body of /api/analytics/population
  scoreError,      \* error: '' or the message of the rejected load
  \* ---- UploadTab
  uploading,
  uploads,         \* handleUpload calls awaiting POST /api/upload-lab-report:
                   \* [id, pid, live], the id sent and the patientId of the
                   \* App render whose handleUploadSuccess they hold
  uploadTimers,    \* pending 800 ms timeouts of handleUploadSuccess
  \* ---- history
  selection,       \* Null or [id]: the patient the user selected last, by
                   \* the switcher or by an upload
  alertsFetched    \* Null or [list]: what the mounted DashboardTab stored of
                   \* its last fulfilled alerts request

appVars == <<tab, patientId, patients, patientsLoading, showMenu, refreshKey,
             criticalAlert, status, appTimers, rosterLoads, probes>>

sliceVars == <<summary, biomarkers, risk, alerts>>

dashVars == <<summary, biomarkers, risk, alerts, loading, countdown,
              dashTimers, cycles, lastSettle>>

scoreVars == <<scoreLoading, scoreLoads>>

chatVars == <<chatPid>>

telemetryVars == <<esqlFeed, wire, queryLog>>

\* Everything but the telemetry.  Nothing reads esqlFeed or queryLog but
\* the markup that displays them.
pageVars == <<appVars, dashVars, scoreVars, chatVars>>

consoleVars == <<query, result, running, error, runs, pickedSinceRun, lastAnswer>>

\* What a specification that does not follow the telemetry or the console
\* leaves aside.  The console keeps its initial state as long as nothing
\* is run in it: EsqlTab is mounted with that state on every visit.
\* The presentational components, functions of their props.
widgetVars == <<gauge, sparkline>>

\* What the specifications of the page, its telemetry and the console all
\* leave aside.
historyVars == <<alertsFetched, selection>>

uploadVars == <<uploading, uploads, uploadTimers>>

scoreSlices == <<scorePercentile, scoreSimilar, scorePanels, scorePopStats>>

scoreDataVars == <<scoreSlices, scoreError>>

apartVars == <<widgetVars, historyVars, scoreDataVars, uploadVars>>

asideVars == <<telemetryVars, consoleVars, apartVars>>

vars == <<pageVars, telemetryVars, consoleVars, apartVars>>

\* ----------------------------------------------------------------- helpers
Min(a, b) == IF a < b THEN a ELSE b

RemoveAt(q, i) == SubSeq(q, 1, i - 1) \o SubSeq(q, i + 1, Len(q))

\* A request leaves the client: it joins the outstanding ones.
Dispatch(q, r) ==
  IF Len(q) < MaxInFlight THEN Append(q, r) ELSE Append(Tail(q), r)

DispatchProbe(n) == Min(n + 1, MaxInFlight)

\* ------------------------------------------------------------ DashboardTab
\* A cycle: the patientId load closed over, whether its instance is still
\* the mounted one, and whether results of a later-dispatched cycle of the
\* same instance have already been applied.
Cycle(pid) == [pid |-> pid, live |-> TRUE, stale |-> FALSE]

LiveCycles == {i \in 1..Len(cycles) : cycles[i].live}

OrEmpty(d) == IF d.has THEN d.list ELSE <<>>

Slice(k) ==
  CASE k = "summary" -> summary
    [] k = "biomarkers" -> biomarkers
    [] k = "risk" -> risk
    [] k = "alerts" -> alerts

\* The value a fulfilled request stores in its slice.
Stored(k, d) ==
  CASE k = "summary" -> d
    [] k = "biomarkers" -> OrEmpty(d)
    [] k = "risk" -> d
    [] k = "alerts" -> OrEmpty(d)

ApplySliceAllOrNothing(k, r, old) ==
  IF \A j \in Slices : r[j].status = "fulfilled" THEN Stored(k, r[k].data) ELSE old

\* if (xR.status === 'fulfilled') setX(xR.value.data ...)
ApplySlice(k, r, old) ==
  IF r[k].status = "fulfilled" THEN Stored(k, r[k].data) ELSE old

LoadingAfterSettleNoFinally(r) ==
  IF \A j \in Slices : r[j].status = "rejected" THEN loading ELSE FALSE

\* finally { setLoading(false); }
LoadingAfterSettle(r) == FALSE

CountdownAfterSettleOnSuccess(r) ==
  IF \E j \in Slices : r[j].status = "rejected" THEN countdown ELSE Period

\* setCountdown(30) after the four if-blocks
CountdownAfterSettle(r) == Period

\* The state of a fresh instance after its mount effect: the useState
\* initialisers, then load() and setInterval.
DashMount(pid, oldCycles, oldTimers) ==
  /\ summary' = Null
  /\ biomarkers' = <<>>
  /\ risk' = Null
  /\ alerts' = <<>>
  /\ loading' = TRUE
  /\ countdown' = Period
  /\ dashTimers' = oldTimers \cup {"mounted"}
  /\ cycles' = Dispatch(oldCycles, Cycle(pid))
  /\ lastSettle' = NoSettle

\* No instance is mounted: nothing is displayed.
DashGone(oldCycles, oldTimers) ==
  /\ summary' = Null
  /\ biomarkers' = <<>>
  /\ risk' = Null
  /\ alerts' = <<>>
  /\ loading' = FALSE
  /\ countdown' = Period
  /\ dashTimers' = oldTimers
  /\ cycles' = oldCycles
  /\ lastSettle' = NoSettle

OrphanedStillLive(q) == q

\* The requests of an unmounted instance stay outstanding.
Orphaned(q) == [i \in 1..Len(q) |-> [q[i] EXCEPT !.live = FALSE]]

CleanupLeaksTimer(t) == IF "mounted" \in t THEN (t \ {"mounted"}) \cup {"unmounted"} ELSE t

\* return () => { if (timerRef.current) clearInterval(timerRef.current); }
Cleanup(t) == t \ {"mounted"}

\* ----------------------------------------------------------- ScoringPanel
\* A load call of the mounted ScoringPanel.  The continuation of a call
\* made by an instance since unmounted sets nothing and is not followed.
ScoreLoad(pid) == [pid |-> pid]

\* The four requests of ScoringPanel.load, in the order of the array.
ScoreCalls == {"percentile", "similar", "panels", "population"}

\* How a fetch() settles: rejected (the network failed), or resolved
\* with a response that is not ok or with one that is.
NotOk == [status |-> "fulfilled", ok |-> FALSE]

Ok(d) == [status |-> "fulfilled", ok |-> TRUE, data |-> d]

\* The body the backend returns to call k for patient pid.
ScoreBody(k, pid) ==
  CASE k = "percentile" -> [pid |-> pid, percentile |-> 95]
    [] k = "similar" -> [has |-> TRUE, list |-> <<[of |-> pid]>>]
    [] k = "panels" -> [has |-> TRUE, list |-> <<[of |-> pid]>>]
    [] k = "population" -> [avg_risk_score |-> 40]

ScoreAllOk(pid) == [k \in ScoreCalls |-> Ok(ScoreBody(k, pid))]

\* The four answers to a load for pid of which at most one is a failure.
ScoreOutcomes(pid) ==
  {ScoreAllOk(pid)} \cup
  {[ScoreAllOk(pid) EXCEPT ![k] = f] : k \in ScoreCalls, f \in {Rejected, NotOk}}

\* Promise.all rejects when one of the four fetches rejects.
AllResolved(r) == \A k \in ScoreCalls : r[k].status = "fulfilled"

\* What `if (res.ok) setX(...)` stores in the slice of call k.
ScoreStored(k, d) ==
  CASE k = "percentile" -> d
    [] k = "similar" -> OrEmpty(d)
    [] k = "panels" -> OrEmpty(d)
    [] k = "population" -> d

\* The slice of call k after the continuation of load: nothing is stored
\* when Promise.all rejected.
ScoreApply(k, r, old) ==
  IF AllResolved(r) /\ r[k].ok THEN ScoreStored(k, r[k].data) ELSE old

\* catch (e: any) { setError(e.message); }
ScoreErrorAfter(r, old) == IF AllResolved(r) THEN old ELSE "Failed to fetch"

\* The useState initialisers of ScoringPanel.
ScoreFresh ==
  /\ scorePercentile' = Null
  /\ scoreSimilar' = <<>>
  /\ scorePanels' = <<>>
  /\ scorePopStats' = Null
  /\ scoreError' = ""

\* if (loading) return ...; if (error) return ...; the panel otherwise.
ScoreView ==
  IF scoreLoading THEN "loading" ELSE IF scoreError # "" THEN "error" ELSE "panel"

\* --------------------------------------------------------------------- App
\* return () => clearInterval(iv);
AppCleanup(t, pid) == t \ {pid}

\* rows.length && !rows.find(p => p.patient_id === patientId)
NeedsFailover(rows, pid) == rows # <<>> /\ pid \notin RosterIds(rows)

\* The DashboardTab key of the render with this patient and refresh key.
DashKey(pid, key) == <<"dash", pid, key>>

AppEffectRunsEveryRender(newPid) == TRUE

\* useEffect(..., [checkStatus, loadPatients]) runs again when a dependency
\* changed: loadPatients = useCallback(..., [patientId]) is a new function
\* whenever patientId changed.
AppEffectRuns(newPid) == newPid # patientId

ScoreEffectRunsOnMountOnly(mounted, newPid) == ~mounted

\* ScoringPanel: useEffect(() => { load(); }, [patientId]) runs on mount and
\* when patientId changed.
ScoreEffectRuns(mounted, newPid) == ~mounted \/ newPid # patientId

\* One render and the effects it schedules, after the handler has set the
\* tab, the patient id and the refresh key.  loads, n and busy are the
\* outstanding roster loads, health probes and patientsLoading as the
\* handler left them.
Commit(newTab, newPid, newKey, loads, n, busy) ==
  /\ tab' = newTab
  /\ patientId' = newPid
  /\ refreshKey' = newKey
  /\ IF AppEffectRuns(newPid)
       THEN /\ appTimers' = AppCleanup(appTimers, patientId) \cup {newPid}
            /\ probes' = DispatchProbe(n)
            /\ rosterLoads' = Dispatch(loads, [pid |-> newPid])
            /\ patientsLoading' = TRUE
       ELSE /\ appTimers' = appTimers
            /\ probes' = n
            /\ rosterLoads' = loads
            /\ patientsLoading' = busy
  \* {tab === 'dashboard' && <DashboardTab key={`dash-${patientId}-${refreshKey}`} />}
  /\ LET was == tab = "dashboard"
         is == newTab = "dashboard"
         same == DashKey(newPid, newKey) = DashKey(patientId, refreshKey)
     IN  IF was /\ is /\ same THEN UNCHANGED dashVars
         ELSE IF was /\ is THEN DashMount(newPid, Orphaned(cycles), Cleanup(dashTimers))
         ELSE IF is THEN DashMount(newPid, cycles, dashTimers)
         ELSE IF was THEN DashGone(Orphaned(cycles), Cleanup(dashTimers))
         ELSE UNCHANGED dashVars
  \* {tab === 'elastic' && <ScoringPanel patientId={patientId} />}
  /\ LET was == tab = "elastic"
         is == newTab = "elastic"
     IN  IF is /\ ScoreEffectRuns(was, newPid)
           THEN /\ scoreLoading' = TRUE
                /\ scoreLoads' = Dispatch(scoreLoads, ScoreLoad(newPid))
         ELSE IF was /\ ~is
           THEN /\ scoreLoading' = FALSE
                /\ scoreLoads' = <<>>
         ELSE UNCHANGED scoreVars
  \* {tab === 'chat' && <ChatTab key={`chat-${patientId}`} />}: the mount
  \* effect sets the greeting for the patientId prop
  /\ chatPid' = IF newTab = "chat" THEN [pid |-> newPid] ELSE Null

\* --------------------------------------------------------------- telemetry
\* A request URL: the base it was built with ("API" for the value of
\* page.tsx's API), the path segments and the query string.
Url(base, path, qs) == [base |-> base, path |-> path, query |-> qs]

HealthUrl == Url("API", <<"health">>, "")

PatientsUrl == Url("API", <<"api", "patients">>, "")

\* URLs the interceptors are followed with.  DashboardTab builds its URLs
\* with a constant of its own, which differs from page.tsx's API when
\* NEXT_PUBLIC_API_URL is set.
Urls ==
  { HealthUrl,
    Url("API", <<"api", "alerts", "feed">>, "patient_id=PAT001"),
    Url("http://localhost:8000", <<"api", "patients", "PAT001", "summary">>, "") }

\* (config.url || '').replace(API, '').split('?')[0]
Normalize(u) == [base |-> IF u.base = "API" THEN "" ELSE u.base, path |-> u.path]

\* url.startsWith('/api/') && !url.includes('health')
Analytics(l) ==
  /\ l.base = ""
  /\ Len(l.path) >= 2
  /\ l.path[1] = "api"
  /\ \A i \in 1..Len(l.path) : l.path[i] # "health"

\* Response bodies as the response interceptor reads them.
Bodies ==
  { [patients |-> <<>>],
    [total |-> 4, alerts |-> <<"critical", "high">>, ms |-> 9] }

\* data?.row_count ?? data?.total ?? data?.biomarkers?.length
\*   ?? data?.alerts?.length ?? 0
RowsOf(data) ==
  IF "row_count" \in DOMAIN data THEN data.row_count
  ELSE IF "total" \in DOMAIN data THEN data.total
  ELSE IF "biomarkers" \in DOMAIN data THEN Len(data.biomarkers)
  ELSE IF "alerts" \in DOMAIN data THEN Len(data.alerts)
  ELSE 0

\* data?.esql_ms ?? data?.ms ?? data?.execution_ms ?? 0
MsOf(data) ==
  IF "esql_ms" \in DOMAIN data THEN data.esql_ms
  ELSE IF "ms" \in DOMAIN data THEN data.ms
  ELSE IF "execution_ms" \in DOMAIN data THEN data.execution_ms
  ELSE 0

\* { label: url, ms: 0, rows: 0 }
Placeholder(l) == [label |-> l, ms |-> 0, rows |-> 0]

PushWhileRoom(prev, e, cap) == IF Len(prev) < cap THEN <<e>> \o prev ELSE prev

\* [e, ...prev].slice(0, cap)
Push(prev, e, cap) == SubSeq(<<e>> \o prev, 1, Min(Len(prev) + 1, cap))

RewrittenAsNewEntry(feed, l, data) ==
  Push(feed, [label |-> l, ms |-> MsOf(data), rows |-> RowsOf(data)], FeedCapacity)

\* copy[0] = { label: url, ms, rows } when copy.length && copy[0].label === url
Rewritten(feed, l, data) ==
  IF feed # <<>> /\ feed[1].label = l
    THEN [feed EXCEPT ![1] = [label |-> l, ms |-> MsOf(data), rows |-> RowsOf(data)]]
    ELSE feed

\* The entries of the requests in flight move down by one when an entry
\* is put at the head; the entry at the capacity is dropped.
Shifted(w) ==
  [i \in 1..Len(w) |->
     [w[i] EXCEPT !.slot = IF @ = 0 \/ @ = FeedCapacity THEN 0 ELSE @ + 1]]

\* The query text of each logQuery call of load, for its patientId.
QueryOf(k, pid) == <<k, pid>>

\* The rows argument of each logQuery call of load.
RowsLogged(k, d) ==
  CASE k = "summary" -> 1
    [] k = "biomarkers" -> Len(OrEmpty(d))
    [] k = "risk" -> 1
    [] k = "alerts" -> Len(OrEmpty(d))

\* One `if (xR.status === 'fulfilled') { ...; logQuery(...) }` of load.
LogIf(log, k, r, pid) ==
  IF r[k].status = "fulfilled"
    THEN Push(log, [query |-> QueryOf(k, pid), rows |-> RowsLogged(k, r[k].data)],
              LogCapacity)
    ELSE log

\* The four of them in the order of the code.
Logged(log, r, pid) ==
  LogIf(LogIf(LogIf(LogIf(log, "summary", r, pid), "biomarkers", r, pid),
              "risk", r, pid), "alerts", r, pid)

\* ----------------------------------------------------------------- EsqlTab
\* EXAMPLES[i].q, abridged to their first characters.
Examples == << <<"F", "R", "O", "M">>, <<"S", "H", "O", "W">> >>

\* Texts of the editor: the examples, nothing, white space only, and a
\* line typed with white space around it.
Queries ==
  {Examples[i] : i \in 1..Len(Examples)} \cup {<<>>, <<" ", "\n">>, <<" ", "R", "O", "W", " ">>}

\* !query.trim()
Blank(q) == \A i \in 1..Len(q) : q[i] \in {" ", "\n", "\t"}

RunBlockedWhenBlank(q, busy) == Blank(q)

\* if (!query.trim() || running) return;
RunBlocked(q, busy) == Blank(q) \/ busy

KeptOnRun(v) == v

\* setError(null); setResult(null);
ClearedOnRun(v) == Null

\* Bodies of a 2xx response of POST /api/esql/run.
RunData ==
  { [status |-> "ok", row_count |-> 2],
    [status |-> "error", error |-> "parsing_exception"] }

\* What the catch block reads of a failed request: e.response?.data?.detail
\* and e.message.
RunErrors ==
  { [status |-> "rejected", detail |-> "Query failed: unknown column", message |-> "Request failed with status code 400"],
    [status |-> "rejected", message |-> "Network Error"],
    [status |-> "rejected"] }

MessageOfNoFallback(e) ==
  IF "detail" \in DOMAIN e THEN e.detail
  ELSE IF "message" \in DOMAIN e THEN e.message
  ELSE ""

\* e.response?.data?.detail || e.message || 'Query failed'
MessageOf(e) ==
  IF "detail" \in DOMAIN e THEN e.detail
  ELSE IF "message" \in DOMAIN e THEN e.message
  ELSE "Query failed"

\* The state of a fresh EsqlTab (the useState initialisers), with the
\* requests of an instance that was unmounted, which stay outstanding.
EsqlFresh ==
  /\ query' = Examples[1]
  /\ result' = Null
  /\ running' = FALSE
  /\ error' = Null
  /\ runs' = Orphaned(runs)
  /\ pickedSinceRun' = FALSE
  /\ UNCHANGED lastAnswer

\* ---------------------------------------------------------------- numbers
\* JavaScript numbers, taken as exact fractions n/d in lowest terms with
\* d > 0; a division by zero gives NotFinite (NaN or an Infinity), which
\* every operation hands on.
Abs(x) == IF x < 0 THEN -x ELSE x

RECURSIVE GCD(_, _)
GCD(a, b) == IF b = 0 THEN a ELSE GCD(b, a % b)

NotFinite == [finite |-> FALSE]

Rat(n, d) ==
  LET g == GCD(Abs(n), Abs(d))
      sgn == IF d < 0 THEN -1 ELSE 1
  IN  [finite |-> TRUE, n |-> sgn * (n \div g), d |-> sgn * (d \div g)]

Num(n) == Rat(n, 1)

Plus(a, b) ==
  IF a.finite /\ b.finite THEN Rat(a.n * b.d + b.n * a.d, a.d * b.d) ELSE NotFinite

Minus(a, b) ==
  IF a.finite /\ b.finite THEN Rat(a.n * b.d - b.n * a.d, a.d * b.d) ELSE NotFinite

Times(a, b) ==
  IF a.finite /\ b.finite THEN Rat(a.n * b.n, a.d * b.d) ELSE NotFinite

Quot(a, b) ==
  IF a.finite /\ b.finite /\ b.n # 0 THEN Rat(a.n * b.d, a.d * b.n) ELSE NotFinite

Less(a, b) == a.finite /\ b.finite /\ a.n * b.d < b.n * a.d

\* ------------------------------------------------- ScoringPanel.RiskGauge
\* Integer percentiles.
Percentiles == 0..100

angleUnshifted(percentile) == Times(Quot(Num(percentile), Num(100)), Num(180))

\* const angle = (percentile / 100) * 180 - 90;
angle(percentile) ==
  Minus(Times(Quot(Num(percentile), Num(100)), Num(180)), Num(90))

\* const color = percentile >= 90 ? '#ef4444' : percentile >= 75 ? '#f97316'
\*   : percentile >= 50 ? '#eab308' : '#22c55e';
color(percentile) ==
  IF percentile >= 90 THEN "#ef4444"
  ELSE IF percentile >= 75 THEN "#f97316"
  ELSE IF percentile >= 50 THEN "#eab308"
  ELSE "#22c55e"

\* What RiskGauge draws: the rotation of the needle and the colour of the
\* needle, the number and the caption.
RiskGauge(percentile) ==
  [angle |-> angle(percentile), color |-> color(percentile)]

\* ---------------------------------------------------- DashboardTab.Sparkline
\* Longest series rendered.
MaxLen == 3

\* Values of a series.
SeriesValues == {0, 4, 7, 9}

Series == UNION {[1..n -> SeriesValues] : n \in 0..MaxLen}

W == 80

H == 24

pad == 2

RECURSIVE MinOf(_)
\* Math.min(...values)
MinOf(values) ==
  IF Len(values) = 1 THEN values[1]
  ELSE LET m == MinOf(Tail(values)) IN IF values[1] < m THEN values[1] ELSE m

RECURSIVE MaxOf(_)
\* Math.max(...values)
MaxOf(values) ==
  IF Len(values) = 1 THEN values[1]
  ELSE LET m == MaxOf(Tail(values)) IN IF values[1] > m THEN values[1] ELSE m

rangeNoDefault(lo, hi) == hi - lo

\* range = max - min || 1
range(lo, hi) == IF hi - lo = 0 THEN 1 ELSE hi - lo

\* The y of a value: pad + (1 - (v - min) / range) * (H - pad * 2)
YOf(v, lo, hi) ==
  Plus(Num(pad),
       Times(Minus(Num(1), Quot(Num(v - lo), Num(range(lo, hi)))), Num(H - pad * 2)))

\* What Sparkline returns: the 'no data' box, or the svg with the polyline
\* ({x},{y} of every value, index from 0) and the dot on the last value.
Sparkline(values, isAbnormal) ==
  IF Len(values) < 2
    THEN [kind |-> "no data"]
    ELSE LET lo == MinOf(values)
             hi == MaxOf(values)
             n == Len(values)
         IN  [kind |-> "svg",
              pts |-> [k \in 1..n |->
                        [x |-> Plus(Num(pad),
                                    Times(Quot(Num(k - 1), Num(n - 1)), Num(W - pad * 2))),
                         y |-> YOf(values[k], lo, hi)]],
              color |-> IF isAbnormal THEN "#f87171" ELSE "#34d399",
              lx |-> Plus(Num(pad), Num(W - pad * 2)),
              ly |-> YOf(values[n], lo, hi)]

\* What the results panel renders: {error && (...)} and the empty state
\* {!result && !error && !running && (...)}.  An empty string is falsy.
ErrorShown == error # Null /\ error.message # ""

EmptyState == result = Null /\ ~ErrorShown /\ ~running

\* ------------------------------------------------------------------ Init
\* The first render (tab 'dashboard', patient 'PAT001') and its effects:
\* App has called checkStatus() and loadPatients() and set its interval,
\* DashboardTab has called load() and set its interval.
\* Effects run child first: DashboardTab's load() is called before App
\* registers the interceptors, so only the two requests of App passed
\* them.
Init ==
  /\ tab = "dashboard"
  /\ patientId = "PAT001"
  /\ patients = <<>>
  /\ patientsLoading = TRUE
  /\ showMenu = FALSE
  /\ refreshKey = 0
  /\ criticalAlert = Null
  /\ status = Null
  /\ appTimers = {"PAT001"}
  /\ rosterLoads = <<[pid |-> "PAT001"]>>
  /\ probes = 1
  /\ summary = Null
  /\ biomarkers = <<>>
  /\ risk = Null
  /\ alerts = <<>>
  /\ loading = TRUE
  /\ countdown = Period
  /\ dashTimers = {"mounted"}
  /\ cycles = <<Cycle("PAT001")>>
  /\ lastSettle = NoSettle
  /\ scoreLoading = FALSE
  /\ scoreLoads = <<>>
  /\ chatPid = Null
  /\ esqlFeed = <<Placeholder(Normalize(PatientsUrl))>>
  /\ wire = <<[url |-> HealthUrl, slot |-> 0], [url |-> PatientsUrl, slot |-> 1]>>
  /\ queryLog = <<>>
  /\ query = Examples[1]
  /\ result = Null
  /\ running = FALSE
  /\ error = Null
  /\ runs = <<>>
  /\ pickedSinceRun = FALSE
  /\ lastAnswer = Null
  /\ gauge = Null
  /\ sparkline = Null
  /\ alertsFetched = Null
  /\ selection = Null
  /\ uploading = FALSE
  /\ uploads = <<>>
  /\ uploadTimers = 0
  /\ scorePercentile = Null
  /\ scoreSimilar = <<>>
  /\ scorePanels = <<>>
  /\ scorePopStats = Null
  /\ scoreError = ""

\* Which of the three returns of DashboardTab renders:
\* if (loading && !summary) ...; if (!summary || summary.total_tests === 0) ...
View ==
  IF summary = Null
    THEN (IF loading THEN "loading" ELSE "empty")
    ELSE (IF summary.total_tests = 0 THEN "empty" ELSE "full")

\* ---------------------------------------------------- DashboardTab actions
\* load(), up to the await: setLoading(true) and the four axios.get calls.
load ==
  /\ loading' = TRUE
  /\ cycles' = Dispatch(cycles, Cycle(patientId))
  /\ lastSettle' = NoSettle

\* The 1 s interval callback:
\* setCountdown(c => { if (c <= 1) { load(); return 30; } return c - 1; })
dashTick ==
  /\ "mounted" \in dashTimers
  /\ IF countdown <= 1
       THEN /\ load
            /\ countdown' = Period
       ELSE /\ countdown' = countdown - 1
            /\ lastSettle' = NoSettle
            /\ UNCHANGED <<loading, cycles>>
  /\ UNCHANGED <<sliceVars, dashTimers, appVars, scoreVars, chatVars>>

\* The Retry button of the "No lab data" view (onClick={load}).
dashRetry ==
  /\ tab = "dashboard"
  /\ View = "empty"
  /\ load
  /\ UNCHANGED <<sliceVars, countdown, dashTimers, appVars, scoreVars, chatVars>>

\* The refresh button of the header row (onClick={load} disabled={loading}).
dashRefresh ==
  /\ tab = "dashboard"
  /\ View = "full"
  /\ ~loading
  /\ load
  /\ UNCHANGED <<sliceVars, countdown, dashTimers, appVars, scoreVars, chatVars>>

FulfilledSlices(r) == {k \in Slices : r[k].status = "fulfilled"}

\* A cycle of the mounted instance that settles as r, with at least one
\* result to apply, has overtaken the cycles of that instance dispatched
\* before it.
Overtaken(q, i, r) ==
  [j \in 1..Len(q) |->
     IF j < i /\ q[i].live /\ q[j].live
       THEN [q[j] EXCEPT !.stale = @ \/ FulfilledSlices(r) # {}]
       ELSE q[j]]

\* The continuation belongs to the instance that called load(): its
\* setters act only while that instance is mounted.
Applies(c) == c.live

\* load(), from the await on: the four requests of cycle i have settled
\* as r.
loadSettle(i, r) ==
  /\ i \in 1..Len(cycles)
  /\ cycles' = RemoveAt(Overtaken(cycles, i, r), i)
  /\ IF Applies(cycles[i])
       THEN /\ summary' = ApplySlice("summary", r, summary)
            /\ biomarkers' = ApplySlice("biomarkers", r, biomarkers)
            /\ risk' = ApplySlice("risk", r, risk)
            /\ alerts' = ApplySlice("alerts", r, alerts)
            /\ countdown' = CountdownAfterSettle(r)
            /\ loading' = LoadingAfterSettle(r)
            /\ lastSettle' = [outcome |-> r, stale |-> cycles[i].stale,
                              before |-> [k \in Slices |-> Slice(k)]]
       ELSE UNCHANGED <<sliceVars, countdown, loading, lastSettle>>
  /\ UNCHANGED <<dashTimers, appVars, scoreVars, chatVars>>

\* ------------------------------------------------------------- App actions
\* Response bodies of GET /health.
HealthData ==
  { [elasticsearch |-> "connected", lab_results_count |-> 5, mcp_enabled |-> TRUE],
    [elasticsearch |-> "disconnected", lab_results_count |-> 0, mcp_enabled |-> FALSE],
    [elasticsearch |-> "connected"] }

\* loadPatients(), up to the await, as called with patientId = pid.
LoadsAfterLoadPatients(pid) == Dispatch(rosterLoads, [pid |-> pid])

\* A tab button (onClick={() => setTab(id)}); "Review with AI" is setTab('chat').
setTab(t) ==
  /\ t \in Tabs
  /\ t # tab
  /\ Commit(t, patientId, refreshKey, rosterLoads, probes, patientsLoading)
  /\ UNCHANGED <<patients, showMenu, criticalAlert, status>>

\* The patient switcher button and the overlay behind the menu.
toggleMenu ==
  /\ showMenu' = ~showMenu
  /\ UNCHANGED <<tab, patientId, patients, patientsLoading, refreshKey,
                 criticalAlert, status, appTimers, rosterLoads, probes>>
  /\ UNCHANGED <<dashVars, scoreVars, chatVars>>

\* switchPatient(id), from a roster entry of the menu or its text field.
switchPatient(id) ==
  /\ showMenu
  /\ id \in Ids
  /\ refreshKey < MaxRefreshKey
  /\ showMenu' = FALSE
  /\ Commit(tab, id, refreshKey + 1, rosterLoads, probes, patientsLoading)
  /\ UNCHANGED <<patients, criticalAlert, status>>

\* The reload button of the menu (onClick={loadPatients}).
menuReload ==
  /\ showMenu
  /\ rosterLoads' = LoadsAfterLoadPatients(patientId)
  /\ patientsLoading' = TRUE
  /\ UNCHANGED <<tab, patientId, patients, showMenu, refreshKey, criticalAlert,
                 status, appTimers, probes>>
  /\ UNCHANGED <<dashVars, scoreVars, chatVars>>

\* "Refresh all data": checkStatus(); loadPatients(); setRefreshKey(k => k + 1)
refreshAll ==
  /\ refreshKey < MaxRefreshKey
  /\ Commit(tab, patientId, refreshKey + 1, LoadsAfterLoadPatients(patientId),
            DispatchProbe(probes), TRUE)
  /\ UNCHANGED <<patients, showMenu, criticalAlert, status>>

\* The 20 s interval callback of the effect that captured patientId = pid:
\* checkStatus(); loadPatients();
appTick(pid) ==
  /\ pid \in appTimers
  /\ probes' = DispatchProbe(probes)
  /\ rosterLoads' = LoadsAfterLoadPatients(pid)
  /\ patientsLoading' = TRUE
  /\ UNCHANGED <<tab, patientId, patients, showMenu, refreshKey, criticalAlert,
                 status, appTimers>>
  /\ UNCHANGED <<dashVars, scoreVars, chatVars>>

\* rows.find(p => p.patient_id === patientId)
Find(rows, pid) ==
  IF pid \in RosterIds(rows)
    THEN rows[CHOOSE i \in 1..Len(rows) :
                /\ rows[i].patient_id = pid
                /\ \A j \in 1..(i - 1) : rows[j].patient_id # pid]
    ELSE Null

\* setCriticalAlert(current && current.critical > 0 ? `Patient ${patientId}
\* has ${current.critical} critical lab panels ...` : null)
AlertFor(rows, pid) ==
  LET current == Find(rows, pid)
  IN  IF current # Null /\ current.critical > 0
        THEN [pid |-> pid, count |-> current.critical]
        ELSE Null

\* if (rows.length && !rows.find(...)) setPatientId(rows[0].patient_id)
FailoverTarget(rows, pid, active) ==
  IF NeedsFailover(rows, pid) THEN rows[1].patient_id ELSE active

\* loadPatients(), from the await on: request i has settled as res.
loadPatientsSettle(i, res) ==
  /\ i \in 1..Len(rosterLoads)
  /\ LET pid == rosterLoads[i].pid
         rest == RemoveAt(rosterLoads, i)
     IN  IF res.status = "fulfilled"
           THEN /\ patients' = res.data
                /\ criticalAlert' = AlertFor(res.data, pid)
                /\ Commit(tab, FailoverTarget(res.data, pid, patientId), refreshKey,
                          rest, probes, FALSE)
           ELSE /\ UNCHANGED <<patients, criticalAlert>>
                /\ Commit(tab, patientId, refreshKey, rest, probes, FALSE)
  /\ UNCHANGED <<showMenu, status>>

\* Date.now() - t0 and new Date().toLocaleTimeString() when a probe returns.
Latencies == {12, 250}

Clock == {"10:00:00", "10:00:20"}

\* data.f ?? d for a field the body may lack
OrDefault(data, f, d) == IF f \in DOMAIN data THEN data[f] ELSE d

\* setStatus({...}) of the try block
StatusOf(data, ms, at) ==
  [es_connected |-> data.elasticsearch = "connected",
   doc_count |-> OrDefault(data, "lab_results_count", 0),
   mcp_enabled |-> OrDefault(data, "mcp_enabled", FALSE),
   latency_ms |-> ms,
   last_checked |-> at]

DegradedCleared(s) ==
  IF s # Null
    THEN [s EXCEPT !.es_connected = FALSE, !.doc_count = 0, !.mcp_enabled = FALSE]
    ELSE Null

DegradedObject(s) ==
  IF s # Null
    THEN [s EXCEPT !.es_connected = FALSE]
    ELSE [es_connected |-> FALSE, doc_count |-> 0, mcp_enabled |-> FALSE,
          latency_ms |-> 0, last_checked |-> ""]

\* setStatus(s => s ? { ...s, es_connected: false } : null)
Degraded(s) == IF s # Null THEN [s EXCEPT !.es_connected = FALSE] ELSE Null

\* checkStatus(), from the await on.
checkStatusSettle(res) ==
  /\ probes > 0
  /\ probes' = probes - 1
  /\ IF res.status = "fulfilled"
       THEN \E ms \in Latencies, at \in Clock : status' = StatusOf(res.data, ms, at)
       ELSE status' = Degraded(status)
  /\ UNCHANGED <<tab, patientId, patients, patientsLoading, showMenu, refreshKey,
                 criticalAlert, appTimers, rosterLoads>>
  /\ UNCHANGED <<dashVars, scoreVars, chatVars>>

dismissAlertAndReload ==
  /\ criticalAlert # Null
  /\ criticalAlert' = Null
  /\ rosterLoads' = LoadsAfterLoadPatients(patientId)
  /\ patientsLoading' = TRUE
  /\ UNCHANGED <<tab, patientId, patients, showMenu, refreshKey,
                 status, appTimers, probes>>
  /\ UNCHANGED <<dashVars, scoreVars, chatVars>>

\* The X of the critical banner (onClick={() => setCriticalAlert(null)}).
dismissAlert ==
  /\ criticalAlert # Null
  /\ criticalAlert' = Null
  /\ UNCHANGED <<tab, patientId, patients, patientsLoading, showMenu, refreshKey,
                 status, appTimers, rosterLoads, probes>>
  /\ UNCHANGED <<dashVars, scoreVars, chatVars>>

\* ------------------------------------------------------------ ScoringPanel
\* ScoringPanel.load(), from the await on: finally { setLoading(false) }.
scoreSettle(i) ==
  /\ i \in 1..Len(scoreLoads)
  /\ scoreLoads' = RemoveAt(scoreLoads, i)
  /\ scoreLoading' = FALSE
  /\ UNCHANGED <<appVars, dashVars, chatVars>>

\* -------------------------------------------------------- telemetry actions
\* The request interceptor, called by axios for a request to u.
onRequest(u) ==
  /\ IF Analytics(Normalize(u))
       THEN /\ esqlFeed' = Push(esqlFeed, Placeholder(Normalize(u)), FeedCapacity)
            /\ wire' = Dispatch(Shifted(wire), [url |-> u, slot |-> 1])
       ELSE /\ esqlFeed' = esqlFeed
            /\ wire' = Dispatch(wire, [url |-> u, slot |-> 0])
  /\ UNCHANGED <<queryLog, pageVars, consoleVars>>

\* The response interceptor, called by axios when request i is answered
\* with a 2xx response whose body is data.
onResponse(i, data) ==
  /\ i \in 1..Len(wire)
  /\ wire' = RemoveAt(wire, i)
  /\ esqlFeed' = IF Analytics(Normalize(wire[i].url))
                   THEN Rewritten(esqlFeed, Normalize(wire[i].url), data)
                   ELSE esqlFeed
  /\ UNCHANGED <<queryLog, pageVars, consoleVars>>

\* Request i fails: only a fulfilled-response interceptor is registered.
onError(i) ==
  /\ i \in 1..Len(wire)
  /\ wire' = RemoveAt(wire, i)
  /\ UNCHANGED <<esqlFeed, queryLog, pageVars, consoleVars>>

\* loadSettle with the logQuery calls of load's continuation.
loadSettleLogged(i, r) ==
  /\ loadSettle(i, r)
  /\ queryLog' = IF Applies(cycles[i]) THEN Logged(queryLog, r, cycles[i].pid)
                                       ELSE queryLog
  /\ UNCHANGED <<esqlFeed, wire, consoleVars>>

\* The tab bar with the query log of the DashboardTab it mounts or
\* unmounts: useState<QueryLog[]>([]).
setTabLogged(t) ==
  /\ setTab(t)
  /\ queryLog' = IF tab = "dashboard" \/ t = "dashboard" THEN <<>> ELSE queryLog
  /\ UNCHANGED <<esqlFeed, wire, consoleVars>>

\* A cycle in which every request but the risk score is answered.
RiskRejected == [AllFulfilled EXCEPT !.risk = Rejected]

\* ---------------------------------------------------------- EsqlTab actions
\* The editor (onChange={e => setQuery(e.target.value)}).
esqlEdit(q) ==
  /\ tab = "esql"
  /\ q # query
  /\ query' = q
  /\ UNCHANGED <<result, running, error, runs, pickedSinceRun, lastAnswer>>
  /\ UNCHANGED <<pageVars, telemetryVars>>

\* pick(i), an example button.
esqlPick(i) ==
  /\ tab = "esql"
  /\ i \in 1..Len(Examples)
  /\ query' = Examples[i]
  /\ result' = Null
  /\ error' = Null
  /\ pickedSinceRun' = TRUE
  /\ UNCHANGED <<running, runs, lastAnswer, pageVars, telemetryVars>>

\* run(), up to the await, from the Run button or Ctrl/Cmd+Enter in the
\* editor (the key handler calls run() whatever the state).
esqlRun ==
  /\ tab = "esql"
  /\ IF RunBlocked(query, running)
       THEN UNCHANGED <<result, running, error, runs, pickedSinceRun>>
       ELSE /\ running' = TRUE
            /\ error' = ClearedOnRun(error)
            /\ result' = ClearedOnRun(result)
            /\ runs' = Dispatch(runs, [query |-> query, live |-> TRUE])
            /\ pickedSinceRun' = FALSE
  /\ UNCHANGED <<query, lastAnswer, pageVars, telemetryVars>>

\* run(), from the await on: request i has settled as res.
esqlSettle(i, res) ==
  /\ i \in 1..Len(runs)
  /\ runs' = RemoveAt(runs, i)
  /\ IF runs[i].live
       THEN /\ running' = FALSE
            /\ IF res.status = "fulfilled"
                 THEN IF res.data.status = "error"
                        THEN error' = [message |-> res.data.error] /\ result' = result
                        ELSE result' = res.data /\ error' = error
                 ELSE error' = [message |-> MessageOf(res)] /\ result' = result
       ELSE UNCHANGED <<result, running, error>>
  /\ lastAnswer' = [live |-> runs[i].live, behind |-> Len(runs) - i]
  /\ UNCHANGED <<query, pickedSinceRun, pageVars, telemetryVars>>

\* The tab bar with the EsqlTab it mounts or unmounts
\* ({tab === 'esql' && <EsqlTab />}).
setTabConsole(t) ==
  /\ setTab(t)
  /\ IF tab = "esql" \/ t = "esql" THEN EsqlFresh ELSE UNCHANGED consoleVars
  /\ UNCHANGED telemetryVars

\* What the alerts tab of the full view renders
\* ({alerts.length === 0 ? (All Clear) : (the list)}).
AlertsView == IF alerts = <<>> THEN "All Clear" ELSE "list"

\* loadSettle, noting what a fulfilled alerts request stored.
loadSettleNoted(i, r) ==
  /\ loadSettle(i, r)
  /\ alertsFetched' =
       IF Applies(cycles[i]) /\ r.alerts.status = "fulfilled"
         THEN [list |-> Stored("alerts", r.alerts.data)]
         ELSE alertsFetched

\* ------------------------------------------------------ ScoringPanel data
\* The data of ScoringPanel after a render of App with this tab and
\* patient: a fresh instance when the tab is entered, nothing when it is
\* left, and setError('') of load() when the effect runs again.
ScoreDataAfter(newTab, newPid) ==
  IF (newTab = "elastic") # (tab = "elastic") THEN ScoreFresh
  ELSE IF newTab = "elastic" /\ ScoreEffectRuns(TRUE, newPid)
    THEN scoreError' = "" /\ UNCHANGED scoreSlices
  ELSE UNCHANGED scoreDataVars

setTabScore(t) == setTab(t) /\ ScoreDataAfter(t, patientId)

switchPatientScore(id) == switchPatient(id) /\ ScoreDataAfter(tab, id)

\* The reload button of the panel (onClick={load}).
scoreReload ==
  /\ tab = "elastic"
  /\ ScoreView = "panel"
  /\ scoreLoading' = TRUE
  /\ scoreLoads' = Dispatch(scoreLoads, ScoreLoad(patientId))
  /\ scoreError' = ""
  /\ UNCHANGED <<scoreSlices, appVars, dashVars, chatVars>>

\* load(), from the await on: the four fetches of load i have settled as r.
scoreSettleData(i, r) ==
  /\ scoreSettle(i)
  /\ scorePercentile' = ScoreApply("percentile", r, scorePercentile)
  /\ scoreSimilar' = ScoreApply("similar", r, scoreSimilar)
  /\ scorePanels' = ScoreApply("panels", r, scorePanels)
  /\ scorePopStats' = ScoreApply("population", r, scorePopStats)
  /\ scoreError' = ScoreErrorAfter(r, scoreError)

\* ----------------------------------------------------------------- UploadTab
\* Bodies of a 2xx response of POST /api/upload-lab-report: the patient the
\* report was stored for.
UploadData(id) == [patient_id |-> id]

\* The tab bar with the UploadTab it mounts or unmounts
\* ({tab === 'upload' && <UploadTab ... />}).
UploadAfter(newTab) ==
  IF tab = "upload" /\ newTab # "upload"
    THEN uploading' = FALSE /\ uploads' = Orphaned(uploads)
    ELSE UNCHANGED <<uploading, uploads>>

setTabUpload(t) ==
  /\ setTab(t)
  /\ UploadAfter(t)
  /\ UNCHANGED <<uploadTimers, selection>>

\* switchPatient, noting the selection.
switchPatientNoted(id) ==
  /\ switchPatient(id)
  /\ selection' = [id |-> id]
  /\ UNCHANGED uploadVars

\* handleUpload(), up to the await, with a file chosen and id the content
\* of the patient id field (the button is disabled while uploading).
handleUpload(id) ==
  /\ tab = "upload"
  /\ ~uploading
  /\ uploading' = TRUE
  /\ uploads' = Dispatch(uploads, [id |-> id, pid |-> patientId, live |-> TRUE])
  /\ UNCHANGED <<uploadTimers, selection, pageVars>>

\* handleUpload(), from the await on: upload i has settled as res.  On
\* success onPatientIdChange(data.patient_id) and onSuccess() are called,
\* whether or not the UploadTab is still mounted: setPatientId, then
\* handleUploadSuccess with the loadPatients of the render it came from
\* and the 800 ms timeout.
uploadSettle(i, res) ==
  /\ i \in 1..Len(uploads)
  /\ uploads' = RemoveAt(uploads, i)
  /\ uploading' = IF uploads[i].live THEN FALSE ELSE uploading
  /\ IF res.status = "fulfilled"
       THEN /\ Commit(tab, res.data.patient_id, refreshKey,
                      LoadsAfterLoadPatients(uploads[i].pid), probes, TRUE)
            /\ uploadTimers' = Min(uploadTimers + 1, MaxInFlight)
            /\ selection' = [id |-> res.data.patient_id]
            /\ UNCHANGED <<patients, showMenu, criticalAlert, status>>
       ELSE UNCHANGED <<uploadTimers, selection, pageVars>>

\* () => { setRefreshKey(k => k + 1); setTab('dashboard'); }
uploadTimeout ==
  /\ uploadTimers > 0
  /\ refreshKey < MaxRefreshKey
  /\ uploadTimers' = uploadTimers - 1
  /\ Commit("dashboard", patientId, refreshKey + 1, rosterLoads, probes, patientsLoading)
  /\ UploadAfter("dashboard")
  /\ UNCHANGED <<patients, showMenu, criticalAlert, status, selection>>

\* ------------------------------------------------ presentational components
\* A render of RiskGauge (<RiskGauge percentile={...} />).
renderGauge(p) ==
  /\ gauge' = [percentile |-> p, out |-> RiskGauge(p)]
  /\ UNCHANGED sparkline

\* A render of Sparkline (<Sparkline values={b.values} isAbnormal={...} />).
renderSparkline(values, isAbnormal) ==
  /\ sparkline' = [values |-> values, isAbnormal |-> isAbnormal,
                   out |-> Sparkline(values, isAbnormal)]
  /\ UNCHANGED gauge

\* ---------------------------------------------------------- specifications
DashNext ==
  \/ dashTick
  \/ dashRetry
  \/ dashRefresh
  \/ \E i \in 1..MaxInFlight, r \in Outcomes : loadSettle(i, r)
  \/ \E t \in {"dashboard", "esql"} : setTab(t)

AppNext ==
  \/ \E t \in {"dashboard", "chat", "esql", "elastic"} : setTab(t)
  \/ toggleMenu
  \/ \E id \in Ids : switchPatient(id)
  \/ menuReload
  \/ refreshAll
  \/ \E pid \in Ids : appTick(pid)
  \/ \E i \in 1..MaxInFlight, res \in Settled(Rosters) : loadPatientsSettle(i, res)
  \/ \E i \in 1..MaxInFlight : scoreSettle(i)
  \/ \E i \in 1..MaxInFlight, r \in {AllRejected, AllFulfilled} : loadSettle(i, r)

Next ==
  \/ DashNext
  \/ AppNext
  \/ \E t \in Tabs : setTab(t)
  \/ \E res \in Settled(HealthData) : checkStatusSettle(res)
  \/ dismissAlert

\* Rosters that do not list the patient the page starts with.
ForeignRosters == {rows \in Rosters : rows # <<>> /\ "PAT001" \notin RosterIds(rows)}

\* The patient switcher with the three patient-scoped components: tab bar,
\* menu, roster entries, and the completions of what they dispatch.
SwitchNext ==
  \/ \E t \in {"dashboard", "chat", "esql", "elastic"} : setTab(t)
  \/ toggleMenu
  \/ \E id \in Ids : switchPatient(id)
  \/ \E i \in 1..MaxInFlight, res \in Settled(ForeignRosters) :
       loadPatientsSettle(i, res)
  \/ \E i \in 1..MaxInFlight : scoreSettle(i)
  \/ \E i \in 1..MaxInFlight : loadSettle(i, AllRejected)

\* Mounting and unmounting: what tears an instance down (tab bar, patient
\* switch, Refresh All, failover) and what could still run afterwards (the
\* 20 s tick, completions of requests of either component).
TeardownNext ==
  \/ \E t \in {"dashboard", "esql"} : setTab(t)
  \/ toggleMenu
  \/ \E id \in Ids : switchPatient(id)
  \/ refreshAll
  \/ \E pid \in Ids : appTick(pid)
  \/ \E i \in 1..MaxInFlight, res \in Settled(Rosters) : loadPatientsSettle(i, res)
  \/ \E i \in 1..MaxInFlight, r \in {AllRejected, AllFulfilled} : loadSettle(i, r)

\* Rosters that are empty or list the patient the page starts with.
HomeRosters == Rosters \ ForeignRosters

\* The header of the App shell: roster, critical banner and patient
\* switcher, with what the 20 s timer dispatches.
ShellNext ==
  \/ toggleMenu
  \/ \E id \in Ids : switchPatient(id)
  \/ \E pid \in Ids : appTick(pid)
  \/ \E i \in 1..MaxInFlight, res \in Settled(HomeRosters) : loadPatientsSettle(i, res)
  \/ dismissAlert

\* The health probe with the 20 s timer that dispatches it.
HealthNext ==
  \/ \E pid \in Ids : appTick(pid)
  \/ \E i \in 1..MaxInFlight, res \in Settled(HomeRosters) : loadPatientsSettle(i, res)
  \/ \E res \in Settled(HealthData) : checkStatusSettle(res)

\* Failover with the backend up and its roster stable: every roster request
\* is answered with the same roster, which lacks the initial patient.
StableRoster == CHOOSE rows \in ForeignRosters : TRUE

\* What the user and the 20 s timer do.
Stimulus ==
  \/ toggleMenu
  \/ \E id \in Ids : switchPatient(id)
  \/ \E pid \in Ids : appTick(pid)

\* A roster request is answered.
RosterAnswered == \E i \in 1..MaxInFlight : loadPatientsSettle(i, Fulfilled(StableRoster))

FailoverNext == Stimulus \/ RosterAnswered

\* The interceptors of App on their own.
FeedNext ==
  \/ \E u \in Urls : onRequest(u)
  \/ \E i \in 1..MaxInFlight, data \in Bodies : onResponse(i, data)
  \/ \E i \in 1..MaxInFlight : onError(i)

\* The two bounded logs: the interceptors for the requests of App, and
\* DashboardTab with its query log.
TelemetryNext ==
  \/ \E u \in {HealthUrl, PatientsUrl} : onRequest(u)
  \/ \E i \in 1..MaxInFlight : onResponse(i, [patients |-> <<>>])
  \/ dashRefresh /\ UNCHANGED asideVars
  \/ \E i \in 1..MaxInFlight, r \in {AllFulfilled, RiskRejected} :
       loadSettleLogged(i, r)
  \/ \E t \in {"dashboard", "esql"} : setTabLogged(t)

\* How POST /api/esql/run can settle.
RunOutcomes == {Fulfilled(d) : d \in RunData} \cup RunErrors

\* The ES|QL console and the tab bar around it.
ConsoleNext ==
  \/ \E q \in Queries : esqlEdit(q)
  \/ \E i \in 1..Len(Examples) : esqlPick(i)
  \/ esqlRun
  \/ \E i \in 1..MaxInFlight, res \in RunOutcomes : esqlSettle(i, res)
  \/ \E t \in {"dashboard", "esql"} : setTabConsole(t)

\* One DashboardTab instance: its refresh and retry buttons and the
\* completions of its cycles.
AlertsNext ==
  \/ dashRefresh /\ UNCHANGED alertsFetched
  \/ dashRetry /\ UNCHANGED alertsFetched
  \/ \E i \in 1..MaxInFlight, r \in Outcomes : loadSettleNoted(i, r)

ScoreNext ==
  \/ \E t \in {"dashboard", "elastic"} : setTabScore(t)
  \/ toggleMenu /\ UNCHANGED scoreDataVars
  \/ \E id \in {"PAT001", "PAT002"} : switchPatientScore(id)
  \/ scoreReload
  \/ \E i \in 1..Len(scoreLoads) : \E r \in ScoreOutcomes(scoreLoads[i].pid) :
       scoreSettleData(i, r)

\* The switcher and an upload, both for PAT002, with a backend whose roster
\* lists PAT002 and not the initial patient.
SelectNext ==
  \/ toggleMenu /\ UNCHANGED <<uploadVars, selection>>
  \/ switchPatientNoted("PAT002")
  \/ setTabUpload("upload")
  \/ handleUpload("PAT002")
  \/ \E i \in 1..Len(uploads) :
       \E res \in {Rejected, Fulfilled(UploadData(uploads[i].id))} : uploadSettle(i, res)
  \/ uploadTimeout
  \/ \E i \in 1..MaxInFlight, res \in Settled(ForeignRosters) :
       loadPatientsSettle(i, res) /\ UNCHANGED <<uploadVars, selection>>

GaugeNext == \E p \in Percentiles : renderGauge(p)

SparklineNext == \E values \in Series, isAbnormal \in BOOLEAN : renderSparkline(values, isAbnormal)

\* The specifications below that follow the page leave its telemetry
\* and the console aside: the telemetry is written by the steps of the
\* page and read by none of them.
\* The DashboardTab of one patient, mounted and unmounted by the tab bar.
SpecDash == Init /\ [][DashNext /\ UNCHANGED asideVars]_vars

\* The App shell: roster, health, patient switcher, tabs.
SpecApp == Init /\ [][AppNext /\ UNCHANGED asideVars]_vars

SpecSwitch == Init /\ [][SwitchNext /\ UNCHANGED asideVars]_vars

SpecTeardown == Init /\ [][TeardownNext /\ UNCHANGED asideVars]_vars

\* A request the backend answers is answered eventually.
SpecFailover ==
  /\ Init
  /\ [][FailoverNext /\ UNCHANGED asideVars]_vars
  /\ WF_vars(RosterAnswered /\ UNCHANGED asideVars)

SpecShell == Init /\ [][ShellNext /\ UNCHANGED asideVars]_vars

SpecHealth == Init /\ [][HealthNext /\ UNCHANGED asideVars]_vars

SpecFeed == Init /\ [][FeedNext /\ UNCHANGED apartVars]_vars

SpecTelemetry == Init /\ [][TelemetryNext /\ UNCHANGED apartVars]_vars

SpecConsole == Init /\ [][ConsoleNext /\ UNCHANGED apartVars]_vars

\* The two presentational components, rendered with props of the ranges
\* above.
SpecGauge ==
  Init /\ [][GaugeNext /\ UNCHANGED <<pageVars, telemetryVars, consoleVars, historyVars, scoreDataVars, uploadVars>>]_vars

SpecSparkline ==
  Init /\ [][SparklineNext /\ UNCHANGED <<pageVars, telemetryVars, consoleVars, historyVars, scoreDataVars, uploadVars>>]_vars

\* The alerts of one DashboardTab instance.
SpecAlerts ==
  Init /\ [][AlertsNext /\ UNCHANGED <<telemetryVars, consoleVars, widgetVars, scoreDataVars, uploadVars, selection>>]_vars

\* ScoringPanel with the tab bar and the patient switcher around it.
SpecScore ==
  Init /\ [][ScoreNext /\ UNCHANGED <<telemetryVars, consoleVars, widgetVars, historyVars, uploadVars>>]_vars

\* The ways the active patient is set: the switcher, an upload, and the
\* failover of a roster load.
SpecSelect ==
  Init /\ [][SelectNext /\ UNCHANGED <<telemetryVars, consoleVars, widgetVars, scoreDataVars, alertsFetched>>]_vars

Spec == Init /\ [][Next /\ UNCHANGED asideVars]_vars

\* ------------------------------------------------------------------ claims
Last(q) == q[Len(q)]

SettledLive == lastSettle # NoSettle

SettleStep == lastSettle' # NoSettle /\ cycles' # cycles

SameInstance ==
  /\ tab = "dashboard" /\ tab' = "dashboard"
  /\ patientId' = patientId /\ refreshKey' = refreshKey

\* C1: after a load cycle of the mounted DashboardTab has settled, every
\* slice whose request was fulfilled holds the value that request returned
\* and every slice whose request was rejected holds the value it had before
\* the cycle, for each of the 16 combinations of outcomes.
C1_SliceFollowsOwnOutcome ==
  SettledLive =>
    \A k \in Slices :
      Slice(k) = IF lastSettle.outcome[k].status = "fulfilled"
                   THEN Stored(k, lastSettle.outcome[k].data)
                   ELSE lastSettle.before[k]

\* A cycle in which summary was rejected and kept a loaded value while risk
\* was fulfilled and changed.
C1_Witness ==
  /\ SettledLive
  /\ lastSettle.outcome.summary.status = "rejected"
  /\ lastSettle.before.summary # Null
  /\ summary = lastSettle.before.summary
  /\ lastSettle.outcome.risk.status = "fulfilled"
  /\ risk # lastSettle.before.risk

\* C2: a tick of a cadence that arrives while a refresh of that cadence is
\* outstanding is dropped: it dispatches no request (1 s countdown tick of
\* DashboardTab reaching zero, 20 s tick of App).
C2_TickDroppedWhileOutstanding ==
  [][ /\ (dashTick /\ LiveCycles # {}) => cycles' = cycles
      /\ \A pid \in Ids :
           (appTick(pid) /\ rosterLoads # <<>>) => rosterLoads' = rosterLoads ]_vars

\* C3: the results of a cycle are never applied after results of a cycle
\* of the same instance that was dispatched later have been applied.
C3_NoStaleCycleApplied ==
  SettledLive => ~(lastSettle.stale /\ FulfilledSlices(lastSettle.outcome) # {})

\* C4: while a cycle of the mounted DashboardTab is dispatched and not yet
\* settled, loading is true.
C4_LoadingWhileOutstanding ==
  (tab = "dashboard" /\ LiveCycles # {}) => loading

\* C5: every cycle that settles clears loading, whatever the outcomes, so
\* that with no cycle outstanding the flag is clear.
C5_LoadingCleared ==
  /\ SettledLive => ~loading
  /\ (tab = "dashboard" /\ LiveCycles = {}) => ~loading

\* A cycle whose four requests were all rejected has settled, nothing is
\* outstanding and the flag is clear.
C5_Witness ==
  /\ SettledLive
  /\ lastSettle.outcome = AllRejected
  /\ LiveCycles = {}
  /\ ~loading

\* C6 as stated: the countdown changes only by a decrement of one or by a
\* reset to the period made when a cycle completes, never at a dispatch.
C6_ResetOnlyOnCompletion ==
  [][ SameInstance =>
        \/ countdown' = countdown
        \/ countdown' = countdown - 1 /\ cycles' = cycles
        \/ countdown' = Period /\ SettleStep ]_vars

\* C6 as amended: a tick above one decrements the countdown by one and
\* dispatches nothing; a tick at one or below dispatches a cycle and
\* resets the countdown to the period; a cycle that completes resets it to
\* the period whatever its outcomes; nothing else changes it.
C6_CountdownSteps ==
  [][ SameInstance =>
        /\ SettleStep => countdown' = Period
        /\ (~SettleStep /\ countdown' # countdown) =>
             \/ countdown > 1 /\ countdown' = countdown - 1 /\ cycles' = cycles
             \/ /\ countdown <= 1 /\ countdown' = Period
                /\ cycles' = Dispatch(cycles, Cycle(patientId)) ]_vars

\* A cycle with every request rejected has completed and the countdown
\* reads the full period.
C6_Witness ==
  /\ SettledLive
  /\ lastSettle.outcome = AllRejected
  /\ countdown = Period
  /\ LiveCycles # {}

\* The component of the selected tab and the roster loader have a request
\* for id outstanding that is the latest they dispatched.
RefreshedFor(id) ==
  /\ rosterLoads # <<>> /\ Last(rosterLoads).pid = id /\ patientsLoading
  /\ tab = "dashboard" =>
       /\ cycles # <<>> /\ Last(cycles).live /\ Last(cycles).pid = id
       /\ loading /\ summary = Null
  /\ tab = "elastic" =>
       scoreLoads # <<>> /\ Last(scoreLoads).pid = id /\ scoreLoading
  /\ tab = "chat" => chatPid = [pid |-> id]

\* C7 as stated: after switchPatient(id), for any id, every mounted
\* patient-scoped component and the roster loader have dispatched a
\* refresh for id in the same step.
C7_SwitchRefreshesAll ==
  [][ \A id \in Ids : switchPatient(id) => RefreshedFor(id)' ]_vars

\* C7 as amended: the same for an id other than the active one.
C7_SwitchToOtherRefreshesAll ==
  [][ \A id \in Ids :
        (switchPatient(id) /\ id # patientId) => RefreshedFor(id)' ]_vars

\* PAT002 is active only by switchPatient (no roster starts with it); the
\* ScoringPanel is mounted and its latest request is for PAT002.
C7_Witness ==
  /\ patientId = "PAT002"
  /\ tab = "elastic"
  /\ RefreshedFor("PAT002")
  /\ Len(scoreLoads) >= 2
  /\ scoreLoads[1].pid # "PAT002"

\* C8: after a teardown the interval of the torn-down DashboardTab instance
\* and of the torn-down App effect is no longer registered, so no tick of
\* it fires or dispatches; and a cycle of a torn-down instance that
\* settles changes nothing of what DashboardTab displays.
C8_NothingRunsAfterTeardown ==
  [][ /\ dashTimers' = IF tab' = "dashboard" THEN {"mounted"} ELSE {}
      /\ appTimers' = {patientId'}
      /\ \A i \in 1..Len(cycles) :
           (~cycles[i].live /\ cycles' = RemoveAt(cycles, i)) =>
             UNCHANGED <<sliceVars, loading, countdown>> ]_vars

\* Both teardowns have happened: the patient was changed (the App effect
\* ran again), a cycle of an unmounted instance is outstanding, and the
\* mounted instance displays loaded data.
C8_Witness ==
  /\ patientId # "PAT001"
  /\ tab = "dashboard"
  /\ summary # Null
  /\ \E i \in 1..Len(cycles) : ~cycles[i].live

\* C9: a roster load that completes with a non-empty roster without the
\* active id makes the roster's first id active; otherwise the active id
\* is unchanged.
C9_FailoverByActiveId ==
  [][ \A i \in 1..Len(rosterLoads), rows \in Rosters :
        loadPatientsSettle(i, Fulfilled(rows)) =>
          patientId' = IF rows # <<>> /\ patientId \notin RosterIds(rows)
                         THEN rows[1].patient_id
                         ELSE patientId ]_vars

\* C10: a roster load whose completion reassigns the active id dispatches
\* no roster request.
C10_FailoverDispatchesNothing ==
  [][ \A i \in 1..Len(rosterLoads), rows \in Rosters :
        (loadPatientsSettle(i, Fulfilled(rows)) /\ patientId' # patientId) =>
          rosterLoads' = RemoveAt(rosterLoads, i) ]_vars

\* C11: failover never loops: once the user and the timer are quiet, the
\* roster loads that failover causes come to an end, and the page settles
\* with no roster load pending and the active id in the roster.
C11_FailoverSettles ==
  <>[][RosterAnswered]_vars =>
    <>[](rosterLoads = <<>> /\ patientId \in RosterIds(patients))

\* The page has failed over from PAT001 without any switch by the user and
\* the load the failover caused has completed.
C11_Witness ==
  /\ refreshKey = 0
  /\ patientId = StableRoster[1].patient_id
  /\ patients = StableRoster
  /\ rosterLoads = <<>>

\* C12: after every successful roster load the critical alert is asserted
\* exactly when the entry of the loaded roster for the patient that is
\* active after the load has critical > 0, and it names that patient and
\* that count (so a load that fails over to a first entry with
\* critical = 2 leaves the alert asserted with count 2).
C12_AlertFromFreshEntry ==
  [][ \A i \in 1..Len(rosterLoads), rows \in Rosters :
        loadPatientsSettle(i, Fulfilled(rows)) =>
          criticalAlert' = AlertFor(rows, patientId') ]_vars

\* C13: a dismissal clears the critical alert and changes nothing else
\* (roster, active id, status, requests); once absent, the alert stays
\* absent until a roster load completes.
C13_DismissedUntilLoad ==
  [][ /\ dismissAlert =>
           /\ criticalAlert' = Null
           /\ UNCHANGED <<tab, patientId, patients, patientsLoading, showMenu,
                          refreshKey, status, appTimers, rosterLoads, probes>>
      /\ (criticalAlert = Null /\ criticalAlert' # Null) =>
           \E i \in 1..Len(rosterLoads), res \in Settled(Rosters) :
             loadPatientsSettle(i, res) ]_vars

\* The user never switched and the roster lists PAT001 with critical
\* panels, so every load that completed asserted the alert: it is absent
\* because it was dismissed.
C13_Witness ==
  /\ refreshKey = 0
  /\ patients # <<>>
  /\ AlertFor(patients, patientId) # Null
  /\ criticalAlert = Null

\* C14: a probe that fails when a snapshot is held leaves every field of
\* the snapshot as it was except es_connected, which becomes false; a
\* probe that succeeds replaces every field: connectivity, document count
\* and feature flag come from the response (with the defaults for fields
\* the body lacks), latency and time of check from this probe.
C14_LastKnownGood ==
  [][ /\ (checkStatusSettle(Rejected) /\ status # Null) =>
           /\ status'.es_connected = FALSE
           /\ \A f \in DOMAIN status \ {"es_connected"} : status'[f] = status[f]
           /\ DOMAIN status' = DOMAIN status
      /\ \A d \in HealthData :
           checkStatusSettle(Fulfilled(d)) =>
             /\ status'.es_connected = (d.elasticsearch = "connected")
             /\ status'.doc_count =
                  (IF "lab_results_count" \in DOMAIN d THEN d.lab_results_count ELSE 0)
             /\ status'.mcp_enabled =
                  (IF "mcp_enabled" \in DOMAIN d THEN d.mcp_enabled ELSE FALSE)
             /\ status'.latency_ms \in Latencies
             /\ status'.last_checked \in Clock ]_vars

\* A probe has failed after one that succeeded: the snapshot reports no
\* connectivity and still carries the document count and the feature flag
\* of the last response.
C14_Witness ==
  /\ status # Null
  /\ ~status.es_connected
  /\ status.doc_count = 5
  /\ status.mcp_enabled

\* C15: status is null exactly while no probe has succeeded: a probe that
\* fails with no snapshot held leaves it null, only a probe that succeeds
\* makes it non-null, and once non-null it is never null again.
C15_NullUntilFirstSuccess ==
  [][ /\ (checkStatusSettle(Rejected) /\ status = Null) => status' = Null
      /\ (status = Null /\ status' # Null) =>
           \E d \in HealthData : checkStatusSettle(Fulfilled(d))
      /\ status # Null => status' # Null
      /\ \A d \in HealthData : checkStatusSettle(Fulfilled(d)) => status' # Null ]_vars

\* Every probe made so far has failed (none is outstanding, the timer has
\* dispatched a second one) and no snapshot is held.
C15_Witness ==
  /\ status = Null
  /\ probes = 0
  /\ Len(rosterLoads) = MaxInFlight

\* q is p with n entries put in front of it, cut to cap entries: the
\* entries kept are the most recent and keep their order.
Prefixed(q, p, n, cap) ==
  /\ Len(q) = Min(Len(p) + n, cap)
  /\ \A j \in (n + 1)..Len(q) : q[j] = p[j - n]

C17_PlaceholderThenInPlace ==
  [][ /\ \A u \in Urls :
           onRequest(u) =>
             IF u.base = "API" /\ Len(u.path) >= 2 /\ u.path[1] = "api"
                               /\ \A j \in 1..Len(u.path) : u.path[j] # "health"
               THEN /\ esqlFeed'[1] = [label |-> [base |-> "", path |-> u.path],
                                        ms |-> 0, rows |-> 0]
                    /\ Prefixed(esqlFeed', esqlFeed, 1, FeedCapacity)
               ELSE esqlFeed' = esqlFeed
      /\ \A i \in 1..Len(wire), data \in Bodies :
           onResponse(i, data) =>
             /\ Len(esqlFeed') = Len(esqlFeed)
             /\ \A j \in 1..Len(esqlFeed) : esqlFeed'[j].label = esqlFeed[j].label
             /\ \A j \in 2..Len(esqlFeed) : esqlFeed'[j] = esqlFeed[j]
             /\ esqlFeed' # esqlFeed =>
                  esqlFeed[1].label = [base |-> "", path |-> wire[i].url.path] ]_vars

\* The feed is full and the metrics of its head entry have been written
\* by a response.
C17_Witness ==
  /\ Len(esqlFeed) = FeedCapacity
  /\ esqlFeed[1].rows > 0
  /\ esqlFeed[2].rows = 0

\* C18: the metrics of a response are written only into the entry that
\* its own request created: a response whose request's entry is no longer
\* the head of the feed changes nothing.
C18_OwnEntryOnly ==
  [][ \A i \in 1..Len(wire), data \in Bodies :
        (onResponse(i, data) /\ esqlFeed' # esqlFeed) => wire[i].slot = 1 ]_vars

LiveRuns == {i \in 1..Len(runs) : runs[i].live}

\* C19 as stated: a run made while a query is running changes nothing and
\* dispatches nothing, a run that is accepted dispatches one request, and
\* never more than one console request is in flight.
C19_OneRequestInFlight ==
  [][ /\ (esqlRun /\ running) => UNCHANGED vars
      /\ (esqlRun /\ ~running /\ ~Blank(query)) =>
           runs' = Dispatch(runs, [query |-> query, live |-> TRUE])
      /\ Len(runs') <= 1 ]_vars

\* C19 as amended: the same, with never more than one request of the
\* mounted console in flight, which is in flight exactly while running.
C19_OneRequestPerConsole ==
  [][ /\ (esqlRun /\ running) => UNCHANGED vars
      /\ (esqlRun /\ ~running /\ ~Blank(query)) =>
           runs' = Dispatch(runs, [query |-> query, live |-> TRUE])
      /\ Cardinality({i \in 1..Len(runs') : runs'[i].live}) <= 1
      /\ running' <=> \E i \in 1..Len(runs') : runs'[i].live ]_vars

\* The mounted console is running its query while the request of a
\* console since unmounted is still outstanding.
C19_Witness ==
  /\ tab = "esql"
  /\ running
  /\ Len(runs) = 2
  /\ ~runs[1].live
  /\ runs[2].live

\* C20: at most one of running, a result and an error is present: while
\* running both result and error are null, and result and error are never
\* both non-null.
C20_OneOutcomeAtATime ==
  /\ running => (result = Null /\ error = Null)
  /\ ~(result # Null /\ error # Null)

\* A run has failed with the endpoint's detail and nothing is running.
C20_Witness ==
  /\ tab = "esql"
  /\ ~running
  /\ result = Null
  /\ error = [message |-> "Query failed: unknown column"]
  /\ LiveRuns = {}

\* C21: when the response of a submission arrives while a submission made
\* after it is in flight, the display (running, result, error) is left as the
\* later submission made it; and as long as the submission of the mounted
\* console is in flight the display is the one its dispatch created.
C21_StaleResponseIgnored ==
  [][ /\ \A i \in 1..Len(runs), res \in RunOutcomes :
           (esqlSettle(i, res) /\ i < Len(runs)) =>
             UNCHANGED <<query, result, running, error>>
      /\ LiveRuns # {} => (running /\ result = Null /\ error = Null) ]_vars

\* The response of a console since unmounted has arrived while the
\* submission of the mounted console is in flight.
C21_Witness ==
  /\ tab = "esql"
  /\ lastAnswer = [live |-> FALSE, behind |-> 1]
  /\ LiveRuns # {}
  /\ running
  /\ result = Null
  /\ error = Null

C30_NothingShownAfterPick ==
  pickedSinceRun => (result = Null /\ error = Null)

\* The band a colour of the gauge stands for.
Band(c) ==
  CASE c = "#ef4444" -> "critical"
    [] c = "#f97316" -> "high"
    [] c = "#eab308" -> "elevated"
    [] c = "#22c55e" -> "normal"

\* C23: for every integer percentile p of 0..100 the angle of the needle is
\* p/100*180 - 90, which lies in [-90, 90] and grows with p, and the band is
\* critical for p >= 90, high for 75 <= p < 90, elevated for 50 <= p < 75
\* and normal below; 95 gives critical at exactly 81 degrees and 50 gives
\* elevated at 0 degrees.
C23_GaugeAngleAndBand ==
  gauge # Null =>
    LET p == gauge.percentile
        a == gauge.out.angle
        b == Band(gauge.out.color)
    IN  /\ a = Rat(180 * p - 9000, 100)
        /\ ~Less(a, Num(-90)) /\ ~Less(Num(90), a)
        /\ \A q \in Percentiles : q < p => Less(RiskGauge(q).angle, a)
        /\ b = "critical" <=> p >= 90
        /\ b = "high" <=> (75 <= p /\ p < 90)
        /\ b = "elevated" <=> (50 <= p /\ p < 75)
        /\ b = "normal" <=> p < 50
        /\ p = 95 => (b = "critical" /\ a = Num(81))
        /\ p = 50 => (b = "elevated" /\ a = Num(0))

\* The gauge of the 95th percentile.
C23_Witness ==
  /\ gauge # Null
  /\ gauge.percentile = 95
  /\ gauge.out = [angle |-> Num(81), color |-> "#ef4444"]

\* C24: a series of no or one value gives the 'no data' box and no
\* coordinates; a series of two or more values gives a polyline with one
\* coordinate pair per value, every coordinate a number (nothing is divided
\* by zero), also when all the values are equal.
C24_SparklineTotal ==
  sparkline # Null =>
    LET out == sparkline.out
        n == Len(sparkline.values)
    IN  IF n < 2
          THEN out = [kind |-> "no data"]
          ELSE /\ out.kind = "svg"
               /\ Len(out.pts) = n
               /\ \A k \in 1..n : out.pts[k].x.finite /\ out.pts[k].y.finite
               /\ out.lx.finite /\ out.ly.finite

\* A series of three equal values was drawn: a level line at the bottom.
C24_Witness ==
  /\ sparkline # Null
  /\ sparkline.values = <<7, 7, 7>>
  /\ sparkline.out.kind = "svg"
  /\ \A k \in 1..3 : sparkline.out.pts[k].y = Num(H - pad)
  /\ sparkline.out.pts[2].x = Num(40)

\* C25: the alerts view shows 'All Clear' only when the last alerts request
\* of the mounted DashboardTab that succeeded returned no alerts; as long as
\* none has succeeded (the first is pending or has failed) it does not.
C25_AllClearOnlyAfterEmptyFetch ==
  (tab = "dashboard" /\ View = "full" /\ AlertsView = "All Clear") =>
    alertsFetched = [list |-> <<>>]

\* The slice of ScoringPanel that call k feeds.
ScoreSlice(k) ==
  CASE k = "percentile" -> scorePercentile
    [] k = "similar" -> scoreSimilar
    [] k = "panels" -> scorePanels
    [] k = "population" -> scorePopStats

\* A fetch that failed: rejected, or answered with a response that is not ok.
Failed(a) == IF a.status = "rejected" THEN TRUE ELSE ~a.ok

\* C26: when one of the four calls of a load fails and the other three
\* succeed, the slice of the failed call keeps its value, the slices of
\* the other calls take the values received, and no error is set that
\* would replace the panel.
C26_PartialFailureKeepsPanel ==
  [][ \A i \in 1..Len(scoreLoads) : \A r \in ScoreOutcomes(scoreLoads[i].pid) :
        (scoreSettleData(i, r) /\ \E k \in ScoreCalls : Failed(r[k])) =>
          /\ \A k \in ScoreCalls :
                ScoreSlice(k)' = IF Failed(r[k]) THEN ScoreSlice(k)
                                 ELSE ScoreStored(k, r[k].data)
          /\ scoreError' = scoreError ]_vars

\* C28: with ScoringPanel mounted and none of its loads outstanding, every
\* patient-scoped slice the panel displays was fetched for the active
\* patient.
C28_SlicesOfActivePatient ==
  (tab = "elastic" /\ scoreLoads = <<>> /\ ScoreView = "panel") =>
    /\ scorePercentile # Null => scorePercentile.pid = patientId
    /\ \A j \in 1..Len(scoreSimilar) : scoreSimilar[j].of = patientId
    /\ \A j \in 1..Len(scorePanels) : scorePanels[j].of = patientId

\* C27: the completion of a roster load that was dispatched for another id
\* than the one the user has selected since, and whose roster lists the
\* selected id, leaves the selected id active.
C27_SelectionNotOverridden ==
  [][ \A i \in 1..Len(rosterLoads), rows \in Rosters :
        ( /\ loadPatientsSettle(i, Fulfilled(rows))
          /\ selection = [id |-> patientId]
          /\ rosterLoads[i].pid # patientId
          /\ patientId \in RosterIds(rows) ) =>
          patientId' = patientId ]_vars

\* C29: whenever the critical alert is shown, the patient its message names
\* is the active patient.
C29_AlertNamesActivePatient ==
  criticalAlert # Null => criticalAlert.pid = patientId

=============================================================================
